---- MODULE Spec2Model ----
(***************************************************************************)
(* Model of promptops/recipes/creation.py: the recipe coordinator          *)
(* (recipe_entrypoint), its three streaming calls (init_recipe,            *)
(* clarify_steps, get_recipe_execution), the edit loop (edit_steps) and    *)
(* the progress reporters the calls drive.                                 *)
(***************************************************************************)
EXTENDS Integers, Sequences, FiniteSets, TLC

\* ------------------------------------------------------------------ bounds
MaxLines == 3      \* lines read from the response bodies of one run
MaxRounds == 2     \* "edit in vim" / "clarify" selections in one edit loop
MaxRegen == 2      \* regeneration callbacks made by one executor run

\* --------------------------------------------------------------- constants
NoReporter == 0    \* loading=None / file_loader = None
HTTP_OK == 200
NoResponse == 0    \* no response object is in scope

NL == "\n"
StatusCodes == {HTTP_OK, 500}

\* ------------------------------------------------------------ text helpers
\* A text is a sequence of characters.

\* s.strip() == ""
StripIsEmpty(s) == \A i \in 1..Len(s) : s[i] \in {" ", NL}

NonBlank(s) == ~StripIsEmpty(s)

\* text.split("\n")
RECURSIVE Split(_)
Split(text) ==
    IF \A i \in 1..Len(text) : text[i] # NL
    THEN <<text>>
    ELSE LET k == CHOOSE i \in 1..Len(text) :
                      text[i] = NL /\ \A j \in 1..(i - 1) : text[j] # NL
         IN  <<SubSeq(text, 1, k - 1)>> \o Split(SubSeq(text, k + 1, Len(text)))

\* "\n".join(parts)
RECURSIVE Join(_)
Join(parts) ==
    IF Len(parts) = 0 THEN <<>>
    ELSE IF Len(parts) = 1 THEN parts[1]
    ELSE parts[1] \o <<NL>> \o Join(Tail(parts))

\* "\n".join([s for s in steps if s.strip() != ""])
VimInput(steps) == Join(SelectSeq(steps, NonBlank))

\* ------------------------------------------------------- lines of a stream
\* One line of a response body: blank, not JSON ("bad"), or a decoded object
\* with the keys it carries.
MkLine(kind, keys, id, step, type, files, key) ==
    [kind |-> kind, keys |-> keys, id |-> id, step |-> step,
     type |-> type, files |-> files, key |-> key]

BlankLine == MkLine("blank", {}, "", <<>>, "", <<>>, "")
BadLine == MkLine("bad", {}, "", <<>>, "", <<>>, "")
IdEvent(v) == MkLine("obj", {"id"}, v, <<>>, "", <<>>, "")
StepEvent(t) == MkLine("obj", {"step"}, "", t, "", <<>>, "")
IdStepEvent(v, t) == MkLine("obj", {"id", "step"}, v, t, "", <<>>, "")
UnknownEvent == MkLine("obj", {"note"}, "", <<>>, "", <<>>, "")
FilesEvent(fs) == MkLine("obj", {"type", "files"}, "", <<>>, "files", fs, "")
ExecutionEvent(k) == MkLine("obj", {"type", "key"}, "", <<>>, "execution", <<>>, k)
ParameterEvent == MkLine("obj", {"type"}, "", <<>>, "parameter", <<>>, "")

OutlineLines ==
    {BlankLine, BadLine, UnknownEvent,
     IdEvent(""), IdEvent("x"), IdEvent("y"),
     StepEvent(<<>>), StepEvent(<<"a">>), StepEvent(<<"b">>),
     IdStepEvent("x", <<"a">>)}

ExecLines ==
    {BlankLine, BadLine, UnknownEvent, ParameterEvent,
     FilesEvent(<<"f">>), FilesEvent(<<"f", "g">>),
     ExecutionEvent("f"), ExecutionEvent("g")}

\* json_line.get('id') / json_line.get('step') used as a condition
GetId(line) == "id" \in line.keys /\ line.id # ""
GetStep(line) == "step" \in line.keys /\ line.step # <<>>

\* ------------------------------------------------------------- the recipe
\* A recipe is a dict: the keys it has and their values.
MkRecipe(bound, keys, id, steps, execution, parameters) ==
    [bound |-> bound, keys |-> keys, id |-> id, steps |-> steps,
     execution |-> execution, parameters |-> parameters]

Unbound == MkRecipe(FALSE, {}, "", <<>>, <<>>, <<>>)
\* recipe = {'steps': []}
NewRecipe == MkRecipe(TRUE, {"steps"}, "", <<>>, <<>>, <<>>)
\* an entry of list_recipes(): {id, name, prompt, language}
SavedRecipe == MkRecipe(TRUE, {"id", "name", "prompt", "language"}, "s", <<>>, <<>>, <<>>)

\* FoldOutline with the step put first: steps.insert(0, ..) for steps.append(..)
FoldOutlinePrepend(r, line) ==
    IF GetId(line)
    THEN [r EXCEPT !.keys = @ \cup {"id"}, !.id = line.id]
    ELSE IF GetStep(line)
         THEN [r EXCEPT !.steps = <<line.step>> \o @]
         ELSE r

\* FoldOutline with the id kept once set: recipe.setdefault('id', ..)
FoldOutlineIdOnce(r, line) ==
    IF GetId(line)
    THEN IF "id" \in r.keys THEN r
         ELSE [r EXCEPT !.keys = @ \cup {"id"}, !.id = line.id]
    ELSE IF GetStep(line)
         THEN [r EXCEPT !.steps = Append(@, line.step)]
         ELSE r

\* the id / step branches of the loop body of init_recipe and clarify_steps
FoldOutline(r, line) ==
    IF GetId(line)
    THEN [r EXCEPT !.keys = @ \cup {"id"}, !.id = line.id]
    ELSE IF GetStep(line)
         THEN [r EXCEPT !.steps = Append(@, line.step)]
         ELSE r

\* response.json() of /recipe/regenerate, as the callback returns it
MkResult(set, execution, parameters) ==
    [set |-> set, execution |-> execution, parameters |-> parameters]

\* the callback has not returned anything
NoResult == MkResult(FALSE, <<>>, <<>>)

RegenerateResults ==
    {MkResult(TRUE, <<ExecutionEvent("g")>>, <<ParameterEvent>>)}

\* --------------------------------------------------------------- reporters
\* A reporter renders from construction until stop(); stops counts stop().
\* shown: labels displayed as in progress; done: completions matched to a
\* displayed label; missed: completions that matched none
MkReporter(kind) ==
    [kind |-> kind, stops |-> 0, shown |-> {}, done |-> 0, missed |-> 0]

Running(reps) == {i \in 1..Len(reps) : reps[i].stops = 0}

StopReporter(reps, i) == [reps EXCEPT ![i].stops = @ + 1]

\* what stop() hands back: nothing, or a handle to the reporter
StopResults == {"none", "handle"}

VARIABLES
    pc,          \* position of the main path
    newRecipe,   \* new_recipe of recipe_entrypoint
    recipe,      \* the caller's recipe
    local,       \* the dict init_recipe builds
    status,      \* status_code of the response in scope
    read,        \* lines read from the response being consumed
    nread,       \* lines read from all responses of the run
    out,         \* lines printed by the streaming call
    loading,     \* the streaming call's loading
    fileLoader,  \* file_loader of get_recipe_execution
    reporters,   \* every reporter constructed so far
    callReps,    \* reporters passed to or created by the current call
    startedQ,    \* started_queue
    completedQ,  \* completed_queue
    og,          \* og of edit_steps
    steps,       \* steps of edit_steps
    entrySteps,  \* history: Recipe.steps when the edit loop was entered
    rounds,      \* edit / clarify selections made in the edit loop
    regens,      \* regeneration callbacks made by the executor
    effects,     \* requests and external invocations, in order
    visited,     \* lifecycle states the recipe has been in
    interrupted, \* a KeyboardInterrupt reached recipe_entrypoint
    vimText,     \* history: the text last handed to edit_with_vim
    regenerated, \* what the last regeneration callback returned
    err          \* the exception that left recipe_entrypoint

vars == <<pc, newRecipe, recipe, local, status, read, nread, out, loading, fileLoader,
          reporters, callReps, startedQ, completedQ, og, steps, entrySteps, rounds,
          regens, effects, visited, interrupted, err, vimText, regenerated>>

Init ==
    /\ pc = "start"
    /\ newRecipe = TRUE
    /\ recipe = Unbound
    /\ local = Unbound
    /\ status = NoResponse
    /\ read = <<>>
    /\ nread = 0
    /\ out = <<>>
    /\ loading = NoReporter
    /\ fileLoader = NoReporter
    /\ reporters = <<>>
    /\ callReps = {}
    /\ startedQ = <<>>
    /\ completedQ = <<>>
    /\ og = <<>>
    /\ steps = <<>>
    /\ entrySteps = <<>>
    /\ rounds = 0
    /\ regens = 0
    /\ effects = <<>>
    /\ visited = {"Empty"}
    /\ interrupted = FALSE
    /\ err = "none"
    /\ vimText = <<>>
    /\ regenerated = NoResult


\* ------------------------------------------------------------ small helpers
Printed(what, n, text, reps) ==
    [what |-> what, n |-> n, text |-> text, running |-> Running(reps)]

\* an exception other than KeyboardInterrupt leaves recipe_entrypoint
Raise(e) ==
    /\ pc' = "raised"
    /\ err' = e

\* recipe_entrypoint is left: its locals and those of the calls it made are
\* gone; the reporters, being threads, and what was issued remain
Unwind ==
    /\ newRecipe' = TRUE
    /\ recipe' = Unbound
    /\ local' = Unbound
    /\ status' = NoResponse
    /\ read' = <<>>
    /\ nread' = 0
    /\ out' = <<>>
    /\ loading' = NoReporter
    /\ fileLoader' = NoReporter
    /\ callReps' = {}
    /\ startedQ' = <<>>
    /\ completedQ' = <<>>
    /\ og' = <<>>
    /\ steps' = <<>>
    /\ entrySteps' = <<>>
    /\ rounds' = 0
    /\ regens' = 0
    /\ vimText' = <<>>
    /\ regenerated' = NoResult

\* the body of "for line in response.iter_lines()" in init_recipe and
\* clarify_steps, applied to the dict r; leaves the dict in r2
OutlineBody(line, r, r2) ==
    LET isStep == ~GetId(line) /\ GetStep(line)
        stops == isStep /\ loading # NoReporter
        reps == IF stops THEN StopReporter(reporters, loading) ELSE reporters
        banner == IF stops THEN <<Printed("banner", 0, <<>>, reps)>> ELSE <<>>
        stepLine == IF isStep
                    THEN <<Printed("step", Len(r2.steps), line.step, reps)>>
                    ELSE <<>>
    IN  /\ r2 = FoldOutline(r, line)
        /\ reporters' = reps
        /\ IF stops
           THEN \E stopResult \in StopResults :
                    loading' = IF stopResult = "none" THEN NoReporter ELSE loading
           ELSE loading' = loading
        /\ out' = out \o banner \o stepLine

\* ------------------------------------------------------- recipe_entrypoint
\* args carry a prompt: init_recipe(prompt, ..., loading=CancellableSimpleLoader(..))
StartFresh ==
    /\ pc = "start"
    /\ \E st \in StatusCodes :
        /\ status' = st
        /\ newRecipe' = TRUE
        /\ reporters' = Append(reporters, MkReporter("simple"))
        /\ loading' = Len(reporters) + 1
        /\ callReps' = {Len(reporters) + 1}
        /\ effects' = Append(effects, "init")
        /\ local' = NewRecipe
        /\ read' = <<>>
        /\ out' = <<>>
        /\ visited' = visited \cup {"Outlining"}
        /\ pc' = "init"
    /\ UNCHANGED <<vimText, regenerated, entrySteps, nread, recipe, fileLoader, startedQ, completedQ, og, steps, rounds,
                   regens, interrupted, err>>

\* no prompt: available_recipes() -> list_recipes()
ListRecipes ==
    /\ pc = "start"
    /\ effects' = Append(effects, "list")
    /\ \E st \in StatusCodes, some \in BOOLEAN :
        IF st = HTTP_OK /\ ~some
        THEN /\ pc' = "returned"
             /\ err' = err
             /\ Unwind
        ELSE /\ newRecipe' = FALSE
             /\ status' = st
             /\ IF st # HTTP_OK
                THEN Raise("status")
                ELSE pc' = "pick" /\ err' = err
             /\ UNCHANGED <<vimText, regenerated, entrySteps, nread, recipe, local, read, out, loading,
                            fileLoader, callReps, startedQ, completedQ, og,
                            steps, rounds, regens>>
    /\ UNCHANGED <<reporters, visited, interrupted>>

\* ui.input() in available_recipes, then the confirm prompt is shown
PickRecipe ==
    /\ pc = "pick"
    /\ pc' = "confirm"
    /\ UNCHANGED <<vimText, regenerated, entrySteps, nread, newRecipe, recipe, local, status, read, out, loading,
                   fileLoader, reporters, callReps, startedQ, completedQ, og,
                   steps, rounds, regens, effects, visited, interrupted, err>>

\* confirmed == GO_BACK
ConfirmGoBack ==
    /\ pc = "confirm"
    /\ pc' = "pick"
    /\ UNCHANGED <<vimText, regenerated, entrySteps, nread, newRecipe, recipe, local, status, read, out, loading,
                   fileLoader, reporters, callReps, startedQ, completedQ, og,
                   steps, rounds, regens, effects, visited, interrupted, err>>

\* confirmed: recipe = init_recipe(recipe['prompt'], recipe['language'], recipe['id'])
ConfirmSaved ==
    /\ pc = "confirm"
    /\ \E st \in StatusCodes :
        /\ status' = st
        /\ recipe' = SavedRecipe
        /\ loading' = NoReporter
        /\ callReps' = {}
        /\ effects' = Append(effects, "init")
        /\ local' = NewRecipe
        /\ read' = <<>>
        /\ out' = <<>>
        /\ visited' = visited \cup {"Outlining"}
        /\ pc' = "init"
    /\ UNCHANGED <<vimText, regenerated, entrySteps, nread, newRecipe, fileLoader, reporters, startedQ, completedQ, og,
                   steps, rounds, regens, interrupted, err>>

\* ------------------------------------------------------------- init_recipe
InitLine ==
    /\ pc = "init"
    /\ nread < MaxLines
    /\ nread' = nread + 1
    /\ \E line \in OutlineLines :
        /\ read' = Append(read, line)
        /\ CASE line.kind = "blank" ->
                  /\ UNCHANGED <<local, reporters, loading, out, pc, err>>
             [] line.kind = "bad" ->
                  /\ Raise("decode")
                  /\ UNCHANGED <<local, reporters, loading, out>>
             [] OTHER ->
                  /\ \E r2 \in {FoldOutline(local, line)} :
                        /\ OutlineBody(line, local, r2)
                        /\ local' = r2
                  /\ UNCHANGED <<pc, err>>
    /\ UNCHANGED <<vimText, regenerated, entrySteps, newRecipe, recipe, status, fileLoader, callReps, startedQ,
                   completedQ, og, steps, rounds, regens, effects, visited,
                   interrupted>>

\* the stream is exhausted: return recipe
InitReturn ==
    /\ pc = "init"
    /\ recipe' = local
    /\ local' = Unbound
    /\ status' = NoResponse
    /\ visited' = visited \cup {"Outlined"}
    /\ pc' = "init_ret"
    /\ UNCHANGED <<vimText, regenerated, entrySteps, nread, newRecipe, read, out, loading, fileLoader,
                   reporters, callReps, startedQ, completedQ, og, steps, rounds,
                   regens, effects, interrupted, err>>


\* -------------------------------------------------------------- edit_steps
\* what edit_with_vim(text) can hand back: the text as it was, or an edit
EditorResults(text) ==
    {text, <<"a", NL, "b">>, <<"a", NL>>}

\* steps = recipe.get('steps', []); og = steps
EnterEditSteps ==
    /\ pc = "init_ret"
    /\ newRecipe
    /\ steps' = recipe.steps
    /\ og' = recipe.steps
    /\ entrySteps' = recipe.steps
    /\ rounds' = 0
    /\ read' = <<>>
    /\ out' = <<>>
    /\ pc' = "menu"
    /\ vimText' = <<>>
    /\ UNCHANGED <<regenerated, nread, newRecipe, recipe, local, status, loading, fileLoader,
                   reporters, callReps, startedQ, completedQ, regens, effects,
                   visited, interrupted, err>>

\* SelectEdit that leaves the loop after the edit: "return recipe" inside
\* the selection == 0 branch
SelectEditReturns ==
    /\ pc = "menu"
    /\ rounds < MaxRounds
    /\ vimText' = VimInput(steps)
    /\ \E edited \in EditorResults(VimInput(steps)) :
        /\ recipe' = [recipe EXCEPT !.steps = Split(edited)]
        /\ steps' = Split(edited)
    /\ rounds' = rounds + 1
    /\ pc' = "edit_ret"
    /\ UNCHANGED <<regenerated, entrySteps, nread, newRecipe, local, status, read, out, loading, fileLoader,
                   reporters, callReps, startedQ, completedQ, og, regens,
                   effects, visited, interrupted, err>>

\* selection == 0: "edit in vim"
SelectEdit ==
    /\ pc = "menu"
    /\ rounds < MaxRounds
    /\ vimText' = VimInput(steps)
    /\ \E edited \in EditorResults(VimInput(steps)) :
        /\ recipe' = [recipe EXCEPT !.steps = Split(edited)]
        /\ steps' = Split(edited)
    /\ rounds' = rounds + 1
    /\ UNCHANGED <<regenerated, entrySteps, nread, pc, newRecipe, local, status, read, out, loading, fileLoader,
                   reporters, callReps, startedQ, completedQ, og, regens,
                   effects, visited, interrupted, err>>

\* selection == 1: clarify_steps(recipe, clarification,
\*                               loading=CancellableSimpleLoader(..))
SelectClarify ==
    /\ pc = "menu"
    /\ rounds < MaxRounds
    /\ rounds' = rounds + 1
    /\ reporters' = Append(reporters, MkReporter("simple"))
    /\ loading' = Len(reporters) + 1
    /\ callReps' = {Len(reporters) + 1}
    /\ read' = <<>>
    /\ out' = <<>>
    /\ IF "id" \notin recipe.keys
       THEN /\ Raise("KeyError")
            /\ UNCHANGED <<recipe, status, effects, visited>>
       ELSE /\ \E st \in StatusCodes : status' = st
            /\ effects' = Append(effects, "clarify")
            /\ recipe' = [recipe EXCEPT !.steps = <<>>]
            /\ visited' = visited \cup {"Clarifying"}
            /\ pc' = "clarify"
            /\ err' = err
    /\ vimText' = <<>>
    /\ UNCHANGED <<regenerated, entrySteps, nread, newRecipe, local, fileLoader, startedQ, completedQ, og, steps,
                   regens, interrupted>>

\* ----------------------------------------------------------- clarify_steps
ClarifyLine ==
    /\ pc = "clarify"
    /\ nread < MaxLines
    /\ nread' = nread + 1
    /\ \E line \in OutlineLines :
        /\ read' = Append(read, line)
        /\ CASE line.kind = "blank" ->
                  /\ UNCHANGED <<recipe, reporters, loading, out, pc, err>>
             [] line.kind = "bad" ->
                  /\ Raise("decode")
                  /\ UNCHANGED <<recipe, reporters, loading, out>>
             [] OTHER ->
                  /\ \E r2 \in {FoldOutline(recipe, line)} :
                        /\ OutlineBody(line, recipe, r2)
                        /\ recipe' = r2
                  /\ UNCHANGED <<pc, err>>
    /\ UNCHANGED <<vimText, regenerated, entrySteps, newRecipe, local, status, fileLoader, callReps, startedQ,
                   completedQ, og, steps, rounds, regens, effects, visited,
                   interrupted>>

\* the stream is exhausted: return recipe
ClarifyReturn ==
    /\ pc = "clarify"
    /\ pc' = "clarify_ret"
    /\ status' = NoResponse
    /\ UNCHANGED <<vimText, regenerated, entrySteps, nread, newRecipe, recipe, local, read, out, loading,
                   fileLoader, reporters, callReps, startedQ, completedQ, og,
                   steps, rounds, regens, effects, visited, interrupted, err>>

\* recipe = clarify_steps(..); back to "while selection != 2"
ClarifyBack ==
    /\ pc = "clarify_ret"
    /\ pc' = "menu"
    /\ read' = <<>>
    /\ out' = <<>>
    /\ UNCHANGED <<vimText, regenerated, entrySteps, nread, newRecipe, recipe, local, status, loading, fileLoader,
                   reporters, callReps, startedQ, completedQ, og, steps, rounds,
                   regens, effects, visited, interrupted, err>>

\* SaveStepsNeeded with the loop's own steps compared: if og != steps
SaveStepsNeededStale == og # steps

\* if og != recipe.get('steps'): save_steps(recipe)
SaveStepsNeeded == og # recipe.steps

\* selection == 2: "continue"; leaves the loop, save_steps, return recipe
SelectContinue ==
    /\ pc = "menu"
    /\ IF SaveStepsNeeded
       THEN /\ effects' = Append(effects, "steps")
            /\ \E st \in StatusCodes :
                /\ status' = st
                /\ IF st # HTTP_OK
                   THEN Raise("status")
                   ELSE pc' = "edit_ret" /\ err' = err
       ELSE /\ pc' = "edit_ret"
            /\ UNCHANGED <<effects, status, err>>
    /\ vimText' = <<>>
    /\ UNCHANGED <<regenerated, entrySteps, nread, newRecipe, recipe, local, read, out, loading, fileLoader,
                   reporters, callReps, startedQ, completedQ, og, steps, rounds,
                   regens, visited, interrupted>>

\* ---------------------------------------------------- get_recipe_execution
\* edit_steps has returned and its locals are gone;
\* loading = CancellableSimpleLoader(..); get_recipe_execution(recipe, loading)
\* up to "file_loader = None"
StartExecution ==
    /\ pc = "edit_ret"
    /\ reporters' = Append(reporters, MkReporter("simple"))
    /\ loading' = Len(reporters) + 1
    /\ callReps' = {Len(reporters) + 1}
    /\ read' = <<>>
    /\ out' = <<>>
    /\ IF "id" \notin recipe.keys
       THEN /\ Raise("KeyError")
            /\ UNCHANGED <<recipe, status, effects, visited, startedQ,
                           completedQ, fileLoader>>
       ELSE /\ \E st \in StatusCodes : status' = st
            /\ effects' = Append(effects, "execution")
            /\ recipe' = [recipe EXCEPT !.keys = @ \cup {"execution", "parameters"},
                                        !.execution = <<>>,
                                        !.parameters = <<>>]
            /\ startedQ' = <<>>
            /\ completedQ' = <<>>
            /\ fileLoader' = NoReporter
            /\ visited' = visited \cup {"Generating"}
            /\ pc' = "exec"
            /\ err' = err
    /\ og' = <<>>
    /\ steps' = <<>>
    /\ entrySteps' = <<>>
    /\ rounds' = 0
    /\ UNCHANGED <<vimText, regenerated, nread, newRecipe, local, regens, interrupted>>

\* json_line.get('type') == 'files'
FilesBranch(line) ==
    /\ reporters' = Append(StopReporter(reporters, loading), MkReporter("multi"))
    /\ fileLoader' = Len(reporters) + 1
    /\ callReps' = callReps \cup {Len(reporters) + 1}
    /\ startedQ' = startedQ \o line.files
    /\ UNCHANGED <<recipe, completedQ, out>>

\* ExecutionBranch without completed_queue.put(..)
ExecutionBranchNoPut(line) ==
    /\ recipe' = [recipe EXCEPT !.execution = Append(@, line)]
    /\ UNCHANGED <<reporters, fileLoader, callReps, startedQ, completedQ, out>>

\* json_line.get('type') == 'execution'
ExecutionBranch(line) ==
    /\ recipe' = [recipe EXCEPT !.execution = Append(@, line)]
    /\ completedQ' = Append(completedQ, line.key)
    /\ UNCHANGED <<reporters, fileLoader, callReps, startedQ, out>>

\* ParameterBranch filing the object under 'execution'
ParameterBranchAsExecution(line) ==
    /\ recipe' = [recipe EXCEPT !.execution = Append(@, line)]
    /\ UNCHANGED <<reporters, fileLoader, callReps, startedQ, completedQ, out>>

\* json_line.get('type') == 'parameter'
ParameterBranch(line) ==
    /\ recipe' = [recipe EXCEPT !.parameters = Append(@, line)]
    /\ UNCHANGED <<reporters, fileLoader, callReps, startedQ, completedQ, out>>

\* else: print('unknown json object', json_line)
UnknownBranch(line) ==
    /\ out' = Append(out, Printed("unknown", 0, <<>>, reporters))
    /\ UNCHANGED <<recipe, reporters, fileLoader, callReps, startedQ, completedQ>>

ExecLine ==
    /\ pc = "exec"
    /\ nread < MaxLines
    /\ nread' = nread + 1
    /\ \E line \in ExecLines :
        /\ read' = Append(read, line)
        /\ CASE line.kind = "blank" ->
                  UNCHANGED <<recipe, reporters, fileLoader, callReps, startedQ,
                              completedQ, out, pc, err>>
             [] line.kind = "bad" ->
                  /\ Raise("decode")
                  /\ UNCHANGED <<recipe, reporters, fileLoader, callReps,
                                 startedQ, completedQ, out>>
             [] OTHER ->
                  /\ CASE line.type = "files" -> FilesBranch(line)
                       [] line.type = "execution" -> ExecutionBranch(line)
                       [] line.type = "parameter" -> ParameterBranch(line)
                       [] OTHER -> UnknownBranch(line)
                  /\ UNCHANGED <<pc, err>>
    /\ UNCHANGED <<vimText, regenerated, entrySteps, newRecipe, local, status, loading, og, steps, rounds, regens,
                   effects, visited, interrupted>>

\* if file_loader: file_loader.stop(); return recipe
ExecReturn ==
    /\ pc = "exec"
    /\ reporters' = IF fileLoader # NoReporter
                    THEN StopReporter(reporters, fileLoader)
                    ELSE reporters
    /\ visited' = visited \cup {"Generated"}
    /\ status' = NoResponse
    /\ pc' = "exec_ret"
    /\ UNCHANGED <<vimText, regenerated, entrySteps, nread, newRecipe, recipe, local, read, out, loading,
                   fileLoader, callReps, startedQ, completedQ, og, steps, rounds,
                   regens, effects, interrupted, err>>


\* ------------------------------------------- executor, feedback, save_flow
\* executor = TerraformExecutor(recipe); executor.run(regen=..) is entered
ExecutorStart ==
    /\ \/ pc = "exec_ret"
       \/ pc = "init_ret" /\ ~newRecipe
    /\ effects' = Append(effects, "run")
    /\ visited' = visited \cup {"Executing"}
    /\ regens' = 0
    /\ read' = <<>>
    /\ out' = <<>>
    /\ pc' = "run"
    /\ UNCHANGED <<vimText, regenerated, entrySteps, nread, newRecipe, recipe, local, status, loading, fileLoader,
                   reporters, callReps, startedQ, completedQ, og, steps, rounds,
                   interrupted, err>>

\* regenerate_recipe_execution that gives up after its first call: it returns
\* without a request once one has been made
RegenerateRecipeExecutionOnce ==
    IF regens >= 1
    THEN UNCHANGED <<pc, err, status, effects, regenerated>>
    ELSE IF "id" \notin recipe.keys
    THEN /\ Raise("KeyError")
         /\ UNCHANGED <<status, effects, regenerated>>
    ELSE /\ effects' = Append(effects, "regenerate")
         /\ \E st \in StatusCodes :
             /\ status' = st
             /\ IF st # HTTP_OK
                THEN /\ Raise("status")
                     /\ UNCHANGED regenerated
                ELSE /\ \E result \in RegenerateResults : regenerated' = result
                     /\ UNCHANGED <<pc, err>>

\* regenerate_recipe_execution(recipe, clarification)
RegenerateRecipeExecution ==
    IF "id" \notin recipe.keys
    THEN /\ Raise("KeyError")
         /\ UNCHANGED <<status, effects, regenerated>>
    ELSE /\ effects' = Append(effects, "regenerate")
         /\ \E st \in StatusCodes :
             /\ status' = st
             /\ IF st # HTTP_OK
                THEN /\ Raise("status")
                     /\ UNCHANGED regenerated
                ELSE /\ \E result \in RegenerateResults : regenerated' = result
                     /\ UNCHANGED <<pc, err>>

\* the executor calls regen after a failure the user answered with a
\* clarification
RegenerateCall ==
    /\ pc = "run"
    /\ regens < MaxRegen
    /\ regens' = regens + 1
    /\ RegenerateRecipeExecution
    /\ UNCHANGED <<vimText, entrySteps, nread, newRecipe, recipe, local, read, out, loading, fileLoader,
                   reporters, callReps, startedQ, completedQ, og, steps, rounds,
                   visited, interrupted>>

\* result = executor.run(..); feedback({"event": "recipe-execute", ..})
ExecutorReturn ==
    /\ pc = "run"
    /\ effects' = Append(effects, "feedback")
    /\ visited' = visited \cup {"Executed"}
    /\ IF newRecipe
       THEN /\ pc' = "ask_save"
            /\ UNCHANGED <<vimText, regenerated, entrySteps, nread, newRecipe, recipe, local, status,
                           read, out, loading, fileLoader, callReps, startedQ,
                           completedQ, og, steps, rounds, regens>>
       ELSE /\ pc' = "returned"
            /\ Unwind
    /\ UNCHANGED <<reporters, interrupted, err>>

\* selection == 0: save_flow(recipe)
ChooseSave ==
    /\ pc = "ask_save"
    /\ effects' = Append(effects, "save")
    /\ \E st \in StatusCodes :
        IF st # HTTP_OK
        THEN /\ status' = st
             /\ Raise("status")
             /\ UNCHANGED <<vimText, regenerated, entrySteps, nread, newRecipe, recipe, local, read,
                            out, loading, fileLoader, callReps, startedQ,
                            completedQ, og, steps, rounds, regens, visited>>
        ELSE /\ pc' = "returned"
             /\ visited' = visited \cup {"Saved"}
             /\ err' = err
             /\ Unwind
    /\ UNCHANGED <<reporters, interrupted>>

\* selection == 1: "exit"
ChooseExit ==
    /\ pc = "ask_save"
    /\ pc' = "returned"
    /\ Unwind
    /\ UNCHANGED <<reporters, effects, visited, interrupted, err>>

\* -------------------------------------------------- interrupts, exceptions
InTry == pc \notin {"returned", "raised", "crashed"}

\* the handler reporting the interrupt: feedback(..) for pass
ExceptKeyboardInterruptReport ==
    /\ pc' = "returned"
    /\ effects' = Append(effects, "feedback")
    /\ UNCHANGED err

\* except KeyboardInterrupt: pass
ExceptKeyboardInterrupt ==
    /\ pc' = "returned"
    /\ UNCHANGED <<effects, err>>

\* the user interrupts while recipe_entrypoint is inside its try block
Interrupt ==
    /\ InTry
    /\ interrupted' = TRUE
    /\ ExceptKeyboardInterrupt
    /\ Unwind
    /\ UNCHANGED <<reporters, visited>>

\* sys.excepthook: feedback({"event": "unhandled_exception", ..})
HandleException ==
    /\ pc = "raised"
    /\ effects' = Append(effects, "unhandled_exception")
    /\ pc' = "crashed"
    /\ Unwind
    /\ UNCHANGED <<reporters, visited, interrupted, err>>

\* --------------------------------------------- the multi-item renderer path
Alive == pc \notin {"returned", "crashed"}

\* the renderer of reporter i draws a label from the started queue
RenderStarted(i) ==
    /\ Alive
    /\ reporters[i].kind = "multi"
    /\ reporters[i].stops = 0
    /\ startedQ # <<>>
    /\ reporters' = [reporters EXCEPT ![i].shown = @ \cup {Head(startedQ)}]
    /\ startedQ' = Tail(startedQ)
    /\ UNCHANGED <<vimText, regenerated, entrySteps, nread, pc, newRecipe, recipe, local, status, read, out, loading,
                   fileLoader, callReps, completedQ, og, steps, rounds, regens,
                   effects, visited, interrupted, err>>

\* the renderer of reporter i drains a label from the completed queue
RenderCompleted(i) ==
    /\ Alive
    /\ reporters[i].kind = "multi"
    /\ reporters[i].stops = 0
    /\ completedQ # <<>>
    /\ reporters' = IF Head(completedQ) \in reporters[i].shown
                    THEN [reporters EXCEPT ![i].shown = @ \ {Head(completedQ)},
                                           ![i].done = @ + 1]
                    ELSE [reporters EXCEPT ![i].missed = @ + 1]
    /\ completedQ' = Tail(completedQ)
    /\ UNCHANGED <<vimText, regenerated, entrySteps, nread, pc, newRecipe, recipe, local, status, read, out, loading,
                   fileLoader, callReps, startedQ, og, steps, rounds, regens,
                   effects, visited, interrupted, err>>

Next ==
    \/ StartFresh
    \/ ListRecipes
    \/ PickRecipe
    \/ ConfirmGoBack
    \/ ConfirmSaved
    \/ InitLine
    \/ InitReturn
    \/ EnterEditSteps
    \/ SelectEdit
    \/ SelectClarify
    \/ ClarifyLine
    \/ ClarifyReturn
    \/ ClarifyBack
    \/ SelectContinue
    \/ StartExecution
    \/ ExecLine
    \/ ExecReturn
    \/ ExecutorStart
    \/ RegenerateCall
    \/ ExecutorReturn
    \/ ChooseSave
    \/ ChooseExit
    \/ Interrupt
    \/ HandleException
    \/ \E i \in 1..Len(reporters) : RenderStarted(i)
    \/ \E i \in 1..Len(reporters) : RenderCompleted(i)

Spec == Init /\ [][Next]_vars


\* ================================================================== claims
Range(seq) == {seq[k] : k \in 1..Len(seq)}

Count(x, seq) == Cardinality({k \in 1..Len(seq) : seq[k] = x})

\* the streaming call has returned normally to its caller
StreamReturned == pc \in {"init_ret", "clarify_ret", "exec_ret"}

\* the lines of a response body are being read
StreamPcs == {"init", "clarify", "exec"}

\* C1: when a streaming call that was given a reporter returns normally,
\* every reporter passed to it or created by it has had stop() called
\* exactly once.
C1_StoppedExactlyOnce ==
    StreamReturned => \A i \in callReps : reporters[i].stops = 1

\* C2: every line a streaming call prints is printed while none of the
\* reporters started for that call is still rendering.
C2_NoPrintWhileRendering ==
    \A k \in 1..Len(out) : out[k].running \cap callReps = {}

\* C4: a streaming response whose status is not 200 is fatal: the call raises
\* and never reads a line of its body.
C4_Non200IsFatal ==
    pc \in StreamPcs => status = HTTP_OK

\* C7: the executor is invoked only on a recipe that has been Outlined and
\* Generated, with execution and parameters populated by a completed
\* execution stream.
C7_RunOnlyGenerated ==
    "run" \in Range(effects) =>
        /\ {"Outlined", "Generated"} \subseteq visited
        /\ {"execution", "parameters"} \subseteq recipe.keys

\* C8: at most one of the reporters of a streaming call is rendering at any
\* time: the single-message loader is stopped before a multi-item loader is
\* created and no multi-item loader is created while another one runs.
C8_AtMostOneRenderer ==
    Cardinality(Running(reporters) \cap callReps) <= 1


\* ---------------------------------------------------------------- C3
\* json.loads failed on the last line read
DecodeAbort == pc = "raised" /\ err = "decode"

\* the lines of the call that came before the one that failed
Before == SubSeq(read, 1, Len(read) - 1)

TookIdBranch(line) == GetId(line)
TookStepBranch(line) == ~GetId(line) /\ GetStep(line)
IsExecution(line) == line.type = "execution"
IsParameter(line) == line.type = "parameter"

Texts(lines) == [k \in 1..Len(lines) |-> lines[k].step]

\* r holds what the outline lines made of it: the steps, and the last id
KeptOutline(r, lines) ==
    /\ r.steps = Texts(SelectSeq(lines, TookStepBranch))
    /\ SelectSeq(lines, TookIdBranch) # <<>> =>
          /\ "id" \in r.keys
          /\ r.id = SelectSeq(lines, TookIdBranch)[Len(SelectSeq(lines, TookIdBranch))].id

\* r holds what the execution lines made of it
KeptExecution(r, lines) ==
    /\ r.execution = SelectSeq(lines, IsExecution)
    /\ r.parameters = SelectSeq(lines, IsParameter)

\* the call stopped at the first line that is not JSON
StoppedAtBadLine ==
    /\ read # <<>>
    /\ read[Len(read)] = BadLine
    /\ \A k \in 1..Len(Before) : Before[k] # BadLine

\* the request of the streaming call that was reading
AbortedCall == effects[Len(effects)]

\* C3 (as claimed): a line that is not JSON aborts the call at that line, and
\* what the earlier lines of the call did to the Recipe is in the caller's
\* Recipe, for init_recipe, clarify_steps and get_recipe_execution alike.
C3_MutationsKeptForCaller ==
    DecodeAbort =>
        /\ StoppedAtBadLine
        /\ AbortedCall \in {"init", "clarify"} => KeptOutline(recipe, Before)
        /\ AbortedCall = "execution" => KeptExecution(recipe, Before)

\* C3 (amended): a line that is not JSON aborts the call at that line; what
\* the earlier lines did is in the caller's Recipe for clarify_steps and
\* get_recipe_execution, while init_recipe built its Recipe in a dict of its
\* own, which holds the mutations and never reaches the caller, whose recipe
\* is as it was before the call.
C3_MutationsKeptInPassedRecipe ==
    DecodeAbort =>
        /\ StoppedAtBadLine
        /\ AbortedCall = "init" =>
              /\ KeptOutline(local, Before)
              /\ recipe = IF newRecipe THEN Unbound ELSE SavedRecipe
        /\ AbortedCall = "clarify" => KeptOutline(recipe, Before)
        /\ AbortedCall = "execution" => KeptExecution(recipe, Before)

\* clarify_steps aborted after an id and before that a round trip through init
C3_Witness ==
    /\ DecodeAbort
    /\ AbortedCall = "clarify"
    /\ Len(read) = 2
    /\ GetId(read[1])

\* ---------------------------------------------------------------- C5
OutlineReturned == pc \in {"init_ret", "clarify_ret"}

IsIdEvent(line) == line.kind = "obj" /\ line.keys = {"id"}
IsStepEvent(line) == line.kind = "obj" /\ line.keys = {"step"}

\* blank lines, id events and step events only
OutlineEventsOnly(lines) ==
    \A k \in 1..Len(lines) :
        lines[k].kind = "blank" \/ IsIdEvent(lines[k]) \/ IsStepEvent(lines[k])

\* no id event with an empty id, no step event with an empty text
NoEmptyValues(lines) ==
    \A k \in 1..Len(lines) :
        /\ IsIdEvent(lines[k]) => lines[k].id # ""
        /\ IsStepEvent(lines[k]) => lines[k].step # <<>>

IsStepPrint(p) == p.what = "step"

\* steps in arrival order, the last id, and "k. <text>" for the k-th step
OutlineOutcome ==
    LET stepEvents == SelectSeq(read, IsStepEvent)
        idEvents == SelectSeq(read, IsIdEvent)
        prints == SelectSeq(out, IsStepPrint)
    IN  /\ recipe.steps = Texts(stepEvents)
        /\ idEvents # <<>> =>
              /\ "id" \in recipe.keys
              /\ recipe.id = idEvents[Len(idEvents)].id
        /\ Len(prints) = Len(stepEvents)
        /\ \A k \in 1..Len(prints) :
              prints[k].n = k /\ prints[k].text = stepEvents[k].step

\* C5 (as claimed): after an outline call over blank lines, id events and
\* step events, Recipe.steps is the step texts in arrival order, Recipe.id is
\* the last id event's value, and the k-th step event is printed "k. <text>".
C5_OutlineFolded ==
    (OutlineReturned /\ OutlineEventsOnly(read)) => OutlineOutcome

\* C5 (amended): the same, for id events whose id is not empty and step
\* events whose text is not empty; an event whose id or step is empty is
\* skipped, because the code tests the value and not the presence of the key.
C5_OutlineFoldedNonEmpty ==
    (OutlineReturned /\ OutlineEventsOnly(read) /\ NoEmptyValues(read))
        => OutlineOutcome

\* init_recipe returned after {"id": ..}, {"step": ..}, {"step": ..}
C5_Witness ==
    /\ pc = "init_ret"
    /\ read = <<IdEvent("x"), StepEvent(<<"a">>), StepEvent(<<"b">>)>>
    /\ recipe.steps = <<<<"a">>, <<"b">>>>

\* ---------------------------------------------------------------- C6
\* the step by which "continue" leaves the edit loop
LeavesByContinue ==
    /\ pc = "menu"
    /\ pc' = "edit_ret" \/ (pc' = "raised" /\ err' = "status")

\* C6: "continue" issues the persist-steps request once if Recipe.steps
\* differs from the steps at loop entry and not at all if it is equal, and no
\* other step of the run issues one.
C6_PersistOnlyOnChange ==
    [][IF LeavesByContinue
       THEN effects' = IF entrySteps # recipe.steps
                       THEN Append(effects, "steps")
                       ELSE effects
       ELSE Count("steps", effects') = Count("steps", effects)]_vars

\* the loop was left by "continue" after a change, with one request issued
C6_Witness ==
    /\ pc = "edit_ret"
    /\ rounds > 0
    /\ entrySteps # recipe.steps
    /\ Count("steps", effects) = 1

\* ---------------------------------------------------------------- C9
\* the execution stream read so far is one files event followed by one
\* execution event for each of its labels
FilesThenExecutions ==
    /\ pc \in {"exec", "exec_ret"}
    /\ read # <<>>
    /\ read[1].type = "files"
    /\ Len(read) = 1 + Len(read[1].files)
    /\ \A k \in 2..Len(read) : read[k].type = "execution"
    /\ {read[k].key : k \in 2..Len(read)} = Range(read[1].files)

Labels == read[1].files

C10_NoEffectAfterInterrupt ==
    [][interrupted' => (effects' = effects /\ pc' = "returned")]_vars

\* the run was interrupted after the execution stream had been requested
C10_Witness ==
    /\ interrupted
    /\ pc = "returned"
    /\ "execution" \in Range(effects)

\* ---------------------------------------------------------------- C11
\* the step by which a streaming call is abandoned while its body is read:
\* json.loads raises, or the user interrupts
CutShort ==
    /\ pc \in StreamPcs
    /\ \/ pc' = "raised" /\ err' = "decode"
       \/ interrupted'

\* C11: when a streaming call is cut short by a decode error or by a user
\* interrupt, none of the reporters of that call is still rendering once
\* control has left the call for the top level.
C11_RendererStoppedWhenCutShort ==
    [][CutShort => Running(reporters') \cap callReps = {}]_vars

\* ---------------------------------------------------------------- C12
\* C12: once the regeneration callback has returned, Recipe.execution and
\* Recipe.parameters are the values it returned.
C12_RegenerationReplaces ==
    (pc = "run" /\ regenerated.set) =>
        /\ {"execution", "parameters"} \subseteq recipe.keys
        /\ recipe.execution = regenerated.execution
        /\ recipe.parameters = regenerated.parameters

EditLoopPcs == {"menu", "clarify", "clarify_ret"}

\* C14: edit_steps returns only on "continue"; after "edit in vim" and after
\* a clarify round the menu is shown again; the execution-stream request is
\* issued only after edit_steps has returned and never while the loop runs.
C14_LeavesOnlyByContinue ==
    [][/\ pc' = "edit_ret" =>
              (pc \in {"menu", "edit_ret"} /\ rounds' = rounds /\ recipe' = recipe)
       /\ (pc = "menu" /\ recipe'.steps # recipe.steps /\ pc' # "clarify")
              => pc' \in {"menu", "returned"}
       /\ pc = "clarify_ret" => pc' \in {"clarify_ret", "menu", "returned"}
       /\ Count("execution", effects') > Count("execution", effects)
              => pc = "edit_ret"
       /\ pc' \in EditLoopPcs => "execution" \notin Range(effects')]_vars

\* "continue" chosen after an edit round and a clarify round
C14_Witness ==
    /\ pc = "edit_ret"
    /\ rounds >= 2
    /\ Count("clarify", effects) = 1

\* ---------------------------------------------------------------- C15
\* the step reads a line that carries an id
ReadsIdLine ==
    /\ Len(read') = Len(read) + 1
    /\ "id" \in read'[Len(read')].keys

\* init_recipe returns a Recipe whose id an id event of its stream has set
ReturnsStreamedId ==
    /\ pc = "init"
    /\ pc' = "init_ret"
    /\ \E k \in 1..Len(read) : GetId(read[k])

\* C15: while recipe_entrypoint runs, a Recipe that has an id keeps that id
\* over every step but the processing of a streamed event that carries an id.
C15_IdChangedOnlyByIdEvent ==
    [][("id" \in recipe.keys /\ pc' \notin {"returned", "crashed"}) =>
          \/ "id" \in recipe'.keys /\ recipe'.id = recipe.id
          \/ ReadsIdLine
          \/ ReturnsStreamedId]_vars

\* ---------------------------------------------------------------- C16
\* the step reads a decoded object that carries none of the recognized tags
ReadsUnknown ==
    /\ pc \in StreamPcs
    /\ Len(read') = Len(read) + 1
    /\ read'[Len(read')] = UnknownEvent

\* C16: in init_recipe, clarify_steps and get_recipe_execution alike, an
\* object with no recognized tag is logged as unrecognized, leaves the Recipe
\* as it was, and the call goes on reading.
C16_UnknownLoggedAndSkipped ==
    [][ReadsUnknown =>
          /\ pc' = pc
          /\ recipe' = recipe
          /\ local' = local
          /\ Len(out') = Len(out) + 1
          /\ out'[Len(out')].what = "unknown"]_vars

\* ---------------------------------------------------------------- C17
\* a step of get_recipe_execution, from the building of its request to its
\* return
ExecutionCallStep ==
    /\ pc \in {"edit_ret", "exec"}
    /\ pc' \in {"exec", "exec_ret"}

OutlineWithStep ==
    /\ pc \in {"init", "init_ret", "clarify", "clarify_ret"}
    /\ \E k \in 1..Len(out) : out[k].what = "step"

IsBanner(p) == p.what = "banner"

\* C18: in an outline call that has had a step event the banner was printed
\* once, before the first numbered step line, and no reporter of the call
\* was signalled to stop more than once, with or without a reporter passed
\* in and whatever stop() returned.
C18_BannerOnceBeforeSteps ==
    OutlineWithStep =>
        /\ Len(SelectSeq(out, IsBanner)) = 1
        /\ out[1].what = "banner"
        /\ \A i \in callReps : reporters[i].stops <= 1

\* ---------------------------------------------------------------- C19
\* C19: after an outline call, every object that carried a step has had it
\* appended and printed, and every object that carried an id has set it,
\* also when one object carried both.
C19_FieldsAppliedIndependently ==
    OutlineReturned =>
        LET withStep == SelectSeq(read, GetStep)
            withId == SelectSeq(read, GetId)
        IN  /\ recipe.steps = Texts(withStep)
            /\ Len(SelectSeq(out, IsStepPrint)) = Len(withStep)
            /\ withId # <<>> => recipe.id = withId[Len(withId)].id

\* ---------------------------------------------------------------- C20
\* the step of an "edit in vim" round
EditRound ==
    /\ pc = "menu"
    /\ pc' = "menu"
    /\ rounds' = rounds + 1

\* C20: in every "edit in vim" round the text handed to the editor is the
\* non-blank steps of the Recipe as it is when the round is chosen.
C20_EditorGetsCurrentSteps ==
    [][EditRound => vimText' = VimInput(recipe.steps)]_vars

\* ---------------------------------------------------------------- C21
\* C21: no clarify, execution-stream or regenerate request is built from a
\* Recipe without an id (building one raises KeyError on recipe['id']), and
\* no persist-steps request is issued for a Recipe without an id.
C21_IdSetBeforeRequests ==
    [][/\ err' # "KeyError"
       /\ effects' = Append(effects, "steps") => "id" \in recipe.keys]_vars

\* ---------------------------------------------------------------- C22
\* an "edit in vim" round on the Recipe's current steps in which the editor
\* hands back the text it was given
UnchangedEditRound ==
    /\ EditRound
    /\ steps = recipe.steps
    /\ recipe'.steps = Split(vimText')

\* C22: an "edit in vim" round in which the editor returns its input
\* unchanged leaves Recipe.steps as it was before the round.
C22_UnchangedEditKeepsSteps ==
    [][UnchangedEditRound => recipe'.steps = recipe.steps]_vars

====
